---- MODULE Spec2Model ----
(***************************************************************************)
(* Model of teb_local_planner's HomotopyClassPlanner                       *)
(* (src/src/homotopy_class_planner.cpp): the pool of trajectory candidates *)
(* (tebs_), the registry of H-signatures (h_signatures_), the best         *)
(* candidate (best_teb_) and the passes of one plan() cycle.               *)
(*                                                                         *)
(* Units.  H-signatures are pairs <<re, im>> of integers in units of 0.025,*)
(* so the literal 0.1 of the source is 4.  Costs are the summed cost       *)
(* vectors, small naturals, all below DBL_MAX.                             *)
(*                                                                         *)
(* External collaborators (the optimizer, the obstacles, the H-signature   *)
(* integral, the detour detector) are inputs drawn with \E at the place    *)
(* where the code calls them.                                              *)
(***************************************************************************)
EXTENDS Integers, Sequences, FiniteSets, TLC

\* ------------------------------------------------------------------ bounds

\* Summed costs range over 0..MaxCost.
MaxCost == 2

\* Obstacles in front of the start that createGraph gives two keypoints.
MaxObstacles == 1

\* cfg_->hcp.roadmap_graph_no_samples ranges over 0..MaxSamples.
MaxSamples == 2

\* Largest pool the re-analysis pass is run on step by step.
MaxPool == 3

\* The trajectory of the best candidate has 0..MaxPoses poses.
MaxPoses == 2

\* Draws counted for one roadmap vertex; further draws leave the count.
MaxTries == 3

\* ------------------------------------------------------- program constants

\* addNewHSignatureIfNew(H, 0.1) in DepthFirst: 0.1 in units of 0.025.
FirstDiscoveryThreshold == 4

\* compareH: std::abs(...) < 0.1 in units of 0.025.
CompareHThreshold == 4

\* deleteTebDetours(0.0) in plan().
PlanDetourThreshold == 0

\* double min_cost = DBL_MAX: larger than every summed cost.
DBL_MAX == MaxCost + 1

NULL == 0

\* Number of values of the unsigned int i of isTrajectoryFeasible, with the
\* width scaled down from 32 to 8 bits: -1 still converts to the largest
\* unsigned value, far above every pose count.
UINT_RANGE == 256

\* ------------------------------------------------------------ input domains

Costs == 0..MaxCost

\* Signatures the H-signature integral may return.
HValues == {<<0, 0>>, <<3, 0>>, <<6, 0>>, <<0, 4>>}

\* cfg_->hcp.h_signature_threshold (0.05, 0.1, 0.15).
SignatureThresholds == {2, 4, 6}

\* cfg_->hcp.max_number_classes.
ClassLimits == {1, 2}

\* Outcomes of the heading and collision tests on the vertex pairs.
Layouts == {"blocked", "direct", "keypoints", "forward", "any"}

\* cfg_->hcp.obstacle_heading_threshold: 0, below a right angle, above it.
HeadingThresholds == {"zero", "acute", "obtuse"}

\* ------------------------------------------------------------------ helpers

Abs(x) == IF x < 0 THEN -x ELSE x

RemoveAt(s, p) == [k \in 1..(Len(s) - 1) |-> IF k < p THEN s[k] ELSE s[k + 1]]

Ids(s) == {s[k].id : k \in 1..Len(s)}

RECURSIVE MinNat(_)
MinNat(S) == LET x == CHOOSE y \in S : TRUE
             IN IF S = {x} THEN x
                ELSE LET m == MinNat(S \ {x}) IN IF x < m THEN x ELSE m


\* --------------------------------------------------------------- variables

VARIABLES
  pc,                     \* position of the orchestrator inside plan()
  tebs_,                  \* the pool: sequence of [id, cost], vector order
  tebs_slack,             \* storage slots of tebs_ behind end(), left by erase
  best_teb_,              \* id of the best candidate, or NULL
  h_signatures_,          \* the registry: sequence of signatures
  graph_,                 \* [n, adj]: vertices 1..n, adjacency lists; kept
                          \* until the optimize pass, nothing reads it later
                          \* (the next builder starts with clearGraph())
  teb_candidates,         \* local of renewAndAnalyzeOldTebs: [first, id, H]
  cand_i,                 \* local iterator into teb_candidates (position)
  cand_i_valid,           \* FALSE once an erase before cand_i invalidated it
  sig_of,                 \* signature computed for each analysed candidate
  max_number_classes,     \* cfg_->hcp.max_number_classes
  h_signature_threshold,  \* cfg_->hcp.h_signature_threshold
  threads,                \* teb_threads: state of the worker of each candidate,
                          \* kept until selectBestTeb has read the costs
  passes,                 \* calls plan() has completed in the current cycle,
                          \* each <<name, arguments>>
  plan_ret,               \* "true" once plan() returned true, else "none"
  detours,                \* ids the detour detector flags for the pass that
                          \* asked last: re-analysis (forgotten when the
                          \* exploration starts) or deleteTebDetours
  near_obstacle,          \* ids re-analysis found within 0.03 of an obstacle,
                          \* forgotten when the exploration starts
  builder_visited,        \* the builder's vector visited, as DepthFirst left it
  classified,             \* [path, size]: the paths DepthFirst handed to
                          \* calculateHSignature, each with tebs_.size() then
  explore_in,             \* <<inputs of the exploration pass of the cycle>>;
                          \* the three are kept until the optimize pass
  optimized,              \* runs of optimizeTEB on each pool position in the
                          \* optimize pass, kept until the selection
  last_call,              \* <<[op, ret, oracle]>>: the last call of
                          \* getVelocityCommand or isTrajectoryFeasible
  sampling                \* the sampling loop of createProbRoadmapGraph

vars == <<pc, tebs_, tebs_slack, best_teb_, h_signatures_, graph_,
          teb_candidates, cand_i, cand_i_valid, sig_of, max_number_classes,
          h_signature_threshold, threads, passes, plan_ret, detours,
          near_obstacle, builder_visited, classified, explore_in, optimized,
          last_call, sampling>>

\* ------------------------------------------------------------ the registry

\* The scan of addNewHSignatureIfNew from position k: TRUE iff some retained
\* signature from k on is within threshold of H in both parts.
RECURSIVE ScanSignatures(_, _, _, _)
ScanSignatures(sigs, k, H, threshold) ==
  IF k > Len(sigs) THEN FALSE
  ELSE LET diff_real == Abs(sigs[k][1] - H[1])
           diff_imag == Abs(sigs[k][2] - H[2])
       IN IF diff_real <= threshold /\ diff_imag <= threshold
          THEN TRUE
          ELSE ScanSignatures(sigs, k + 1, H, threshold)

\* The scan with < for <=: a signature exactly at the threshold is new.
RECURSIVE ScanSignaturesStrict(_, _, _, _)
ScanSignaturesStrict(sigs, k, H, threshold) ==
  IF k > Len(sigs) THEN FALSE
  ELSE IF Abs(sigs[k][1] - H[1]) < threshold
          /\ Abs(sigs[k][2] - H[2]) < threshold
  THEN TRUE
  ELSE ScanSignaturesStrict(sigs, k + 1, H, threshold)

addNewHSignatureIfNewStrict(sigs, H, threshold) ==
  IF ScanSignaturesStrict(sigs, 1, H, threshold)
  THEN [ret |-> FALSE, sigs |-> sigs]
  ELSE [ret |-> TRUE, sigs |-> Append(sigs, H)]

addNewHSignatureIfNew(sigs, H, threshold) ==
  IF ScanSignatures(sigs, 1, H, threshold)
  THEN [ret |-> FALSE, sigs |-> sigs]
  ELSE [ret |-> TRUE, sigs |-> Append(sigs, H)]

compareH(i, j) ==
  /\ Abs(i.H[1] - j[1]) < CompareHThreshold
  /\ Abs(i.H[2] - j[2]) < CompareHThreshold


\* --------------------------------------------- the pool as a std::vector

\* A stored iterator is a position.  tebs_.erase(p) moves the elements
\* behind p one slot down and leaves the old last element in the slot behind
\* the new end(); an erase at or behind end() only drops the last element.
EraseTeb(R, p) ==
  LET n == Len(R.tebs)
  IN [R EXCEPT !.tebs = IF p <= n THEN RemoveAt(R.tebs, p)
                        ELSE SubSeq(R.tebs, 1, n - 1),
               !.slack = <<R.tebs[n]>> \o R.slack]

\* What the position p holds: a pool element, or a slot behind end().
Slot(R, p) ==
  IF p <= Len(R.tebs) THEN R.tebs[p] ELSE R.slack[p - Len(R.tebs)]

\* The iterator stored in candidate c no longer refers to its element.
Invalid(R, c) == c.first > Len(R.tebs) \/ R.tebs[c.first].id # c.id

\* Use of an invalidated iterator may also end the process.
Crashed(R) == [R EXCEPT !.phase = "crashed"]

\* ------------------------------------------------- renewAndAnalyzeOldTebs

\* A first loop that erases a near-collision only if another candidate is
\* left, as it does for detours.
RECURSIVE CollectLoopKeepLast(_, _, _, _, _, _, _)
CollectLoopKeepLast(tebs, it_teb, cands, delete_detours, det, near, hs) ==
  IF it_teb > Len(tebs)
  THEN [tebs |-> tebs, cands |-> cands]
  ELSE IF delete_detours /\ Len(tebs) > 1 /\ tebs[it_teb].id \in det
  THEN CollectLoopKeepLast(RemoveAt(tebs, it_teb), it_teb, cands,
                           delete_detours, det, near, hs)
  ELSE IF Len(tebs) > 1 /\ tebs[it_teb].id \in near
  THEN CollectLoopKeepLast(RemoveAt(tebs, it_teb), it_teb, cands,
                           delete_detours, det, near, hs)
  ELSE CollectLoopKeepLast(tebs, it_teb + 1,
                   Append(cands, [first |-> it_teb, id |-> tebs[it_teb].id,
                                  H |-> IF tebs[it_teb].id \in DOMAIN hs
                                        THEN hs[tebs[it_teb].id]
                                        ELSE <<0, 0>>]),
                   delete_detours, det, near, hs)

\* First loop: erase detours (if asked and another candidate is left) and
\* near-collisions, collect <iterator, H> of the others.
RECURSIVE CollectLoop(_, _, _, _, _, _, _)
CollectLoop(tebs, it_teb, cands, delete_detours, det, near, hs) ==
  IF it_teb > Len(tebs)
  THEN [tebs |-> tebs, cands |-> cands]
  ELSE IF delete_detours /\ Len(tebs) > 1 /\ tebs[it_teb].id \in det
  THEN CollectLoop(RemoveAt(tebs, it_teb), it_teb, cands,
                   delete_detours, det, near, hs)
  ELSE IF tebs[it_teb].id \in near
  THEN CollectLoop(RemoveAt(tebs, it_teb), it_teb, cands,
                   delete_detours, det, near, hs)
  ELSE CollectLoop(tebs, it_teb + 1,
                   Append(cands, [first |-> it_teb, id |-> tebs[it_teb].id,
                                  H |-> hs[tebs[it_teb].id]]),
                   delete_detours, det, near, hs)

\* std::find_if(begin, end, compareH(_1, H)): first matching position.
RECURSIVE FindIf(_, _, _)
FindIf(cands, k, H) ==
  IF k > Len(cands) THEN k
  ELSE IF compareH(cands[k], H) THEN k
  ELSE FindIf(cands, k + 1, H)

\* One iteration of the second loop (duplicates among the collected).
DedupIteration(R) ==
  LET cands == R.cands
      i == R.cand_i
  IN IF i > Len(cands)
     THEN {[R EXCEPT !.phase = "register", !.cand_i = 1, !.valid = TRUE]}
          \cup (IF R.valid THEN {} ELSE {Crashed(R)})
     ELSE
       LET j == FindIf(cands, 1, cands[i].H)
       IN IF j <= Len(cands) /\ j # i
          THEN
            LET cost_j == Slot(R, cands[j].first).cost
                cost_i == Slot(R, cands[i].first).cost
            IN (IF cost_j > cost_i
                THEN {[EraseTeb(R, cands[j].first) EXCEPT
                         !.cands = RemoveAt(cands, j),
                         !.valid = (j > i)]}
                ELSE {[EraseTeb(R, cands[i].first) EXCEPT
                         !.cands = RemoveAt(cands, i),
                         !.valid = TRUE]})
               \cup (IF R.valid /\ ~Invalid(R, cands[j])
                        /\ ~Invalid(R, cands[i])
                     THEN {} ELSE {Crashed(R)})
          ELSE {[R EXCEPT !.cand_i = i + 1]}
               \cup (IF R.valid THEN {} ELSE {Crashed(R)})

\* One iteration of the third loop (re-registration of the collected).
RegisterIteration(R, threshold) ==
  LET cands == R.cands
      i == R.cand_i
  IN IF i > Len(cands)
     THEN {[R EXCEPT !.phase = "done", !.cands = <<>>, !.cand_i = 0,
                     !.slack = <<>>]}
     ELSE
       LET r == addNewHSignatureIfNew(R.sigs, cands[i].H, threshold)
       IN IF ~r.ret
          THEN {[EraseTeb(R, cands[i].first) EXCEPT !.cand_i = i + 1]}
               \cup (IF Invalid(R, cands[i]) THEN {Crashed(R)} ELSE {})
          ELSE {[R EXCEPT !.sigs = r.sigs, !.cand_i = i + 1]}

RenewIteration(R, threshold) ==
  IF R.phase = "dedup" THEN DedupIteration(R)
  ELSE RegisterIteration(R, threshold)

\* The second and third loop run to their end.
RECURSIVE RenewLoops(_, _)
RenewLoops(R, threshold) ==
  IF R.phase \in {"done", "crashed"} THEN {R}
  ELSE UNION {RenewLoops(R2, threshold) : R2 \in RenewIteration(R, threshold)}

\* h_signatures_.clear() and the first loop.
RenewCollect(tebs, delete_detours, det, near, hs) ==
  LET c == CollectLoop(tebs, 1, <<>>, delete_detours, det, near, hs)
  IN [phase |-> "dedup", tebs |-> c.tebs, slack |-> <<>>, cands |-> c.cands,
      cand_i |-> 1, valid |-> TRUE, sigs |-> <<>>]


\* ------------------------------------------------------ the graph builders

Range(s) == {s[k] : k \in 1..Len(s)}

\* Result of the heading test and the collision tests for the pair (i, j)
\* of a graph with vertices 1..n (1 the start, n the goal).
Admissible(layout, i, j, n) ==
  CASE layout = "blocked"   -> FALSE
    [] layout = "direct"    -> i = 1 /\ j = n
    [] layout = "keypoints" -> (i = 1 /\ 1 < j /\ j < n) \/ (1 < i /\ j = n)
    [] layout = "forward"   -> i < j
    [] layout = "any"       -> TRUE

\* The outcomes the tests can have.  A pair passes the heading test iff
\* distij.dot(diff) > cos(obstacle_heading_threshold).  At threshold 0 the
\* cosine is 1 and no pair passes, unless rounding lifts the product of the
\* two unit vectors above 1, which only a pair along diff can reach; below a
\* right angle a pair and its reverse do not both pass.  Without obstacles
\* no collision test fails, and the pair start-goal, which is along diff,
\* passes whenever the cosine is below 1.
PossibleLayouts(obstacle_heading_threshold, obstacles) ==
  CASE obstacle_heading_threshold = "zero" -> {"blocked", "direct"}
    [] obstacle_heading_threshold = "acute" ->
         IF obstacles = 0 THEN {"direct", "forward"} ELSE Layouts \ {"any"}
    [] obstacle_heading_threshold = "obtuse" ->
         IF obstacles = 0 THEN {"direct", "forward", "any"} ELSE Layouts

\* "Insert Edges": for every vertex but the goal, every other vertex in
\* vertex order; out-edges keep insertion order.
RECURSIVE OutEdges(_, _, _, _)
OutEdges(layout, i, j, n) ==
  IF j > n THEN <<>>
  ELSE IF j # i /\ Admissible(layout, i, j, n)
  THEN <<j>> \o OutEdges(layout, i, j + 1, n)
  ELSE OutEdges(layout, i, j + 1, n)

InsertEdges(layout, n) ==
  [n |-> n,
   adj |-> [i \in 1..n |-> IF i = n THEN <<>> ELSE OutEdges(layout, i, 1, n)]]

\* clearGraph()
EmptyGraph == [n |-> 0, adj |-> <<>>]

\* Smallest id no live candidate has (best_teb_ keeps its candidate alive).
NewId(tebs) ==
  MinNat((1..(Len(tebs) + 2)) \ (Ids(tebs) \cup {best_teb_}))

\* The path handed last was classified: the registry's answer, and the
\* sizes of registry and pool after it.
Classified(st, new_flag) ==
  LET n == Len(st.classified)
  IN [st EXCEPT !.classified[n] =
                  [path |-> @.path, size |-> @.size, new_flag |-> new_flag,
                   sigs |-> Len(st.sigs), tebs |-> Len(st.tebs)]]

\* A classification that creates a candidate whatever the registry says.
ClassifyPathAlwaysInit(st, H) ==
  LET r == addNewHSignatureIfNew(st.sigs, H, FirstDiscoveryThreshold)
  IN Classified([st EXCEPT !.sigs = r.sigs,
                           !.tebs = Append(st.tebs, [id |-> NewId(st.tebs),
                                                     cost |-> 0])],
                r.ret)

\* The goal was reached with signature H: register it, and if it is new
\* addAndInitNewTeb.
ClassifyPath(st, H) ==
  LET r == addNewHSignatureIfNew(st.sigs, H, FirstDiscoveryThreshold)
  IN IF r.ret
     THEN Classified([st EXCEPT !.sigs = r.sigs,
                                !.tebs = Append(st.tebs,
                                           [id |-> NewId(st.tebs),
                                            cost |-> 0])],
                     r.ret)
     ELSE Classified(st, r.ret)

\* visited (with the goal pushed) is handed to calculateHSignature.
Handed(st, path) ==
  [st EXCEPT !.classified =
               Append(@, [path |-> path, size |-> Len(st.tebs)])]

PushBack(visited, v) == Append(visited, v)
PopBack(visited) == SubSeq(visited, 1, Len(visited) - 1)

\* DepthFirst, for every value the H-signature of a closed path may take:
\* the set of states [tebs, sigs, classified, visited] it may return with,
\* visited being the caller's vector as the call leaves it.
RECURSIVE DepthFirst(_, _, _, _)
RECURSIVE RecurseAdjacent(_, _, _, _, _, _)
\* The second loop leaving after its first recursion.
RecurseAdjacentFirstOnly(g, visited, goal, adj, k, st) ==
  IF k > Len(adj) THEN {[st EXCEPT !.visited = visited]}
  ELSE IF adj[k] \in Range(visited) \/ adj[k] = goal
  THEN RecurseAdjacent(g, visited, goal, adj, k + 1, st)
  ELSE {[s EXCEPT !.visited = PopBack(s.visited)] :
          s \in DepthFirst(g, PushBack(visited, adj[k]), goal, st)}

\* DepthFirst with the early exit one candidate late.
DepthFirstLateExit(g, visited, goal, st) ==
  IF Len(st.tebs) > max_number_classes
  THEN {[st EXCEPT !.visited = visited]}
  ELSE LET back == visited[Len(visited)]
           adj == g.adj[back]
           closed == IF goal \in Range(adj) /\ goal \notin Range(visited)
                     THEN {ClassifyPath(Handed(st, PushBack(visited, goal)),
                                        H) : H \in HValues}
                     ELSE {st}
       IN UNION {RecurseAdjacent(g, visited, goal, adj, 1, s) : s \in closed}

DepthFirst(g, visited, goal, st) ==
  IF Len(st.tebs) >= max_number_classes
  THEN {[st EXCEPT !.visited = visited]}
  ELSE LET back == visited[Len(visited)]
           adj == g.adj[back]
           closed == IF goal \in Range(adj) /\ goal \notin Range(visited)
                     THEN {ClassifyPath(Handed(st, PushBack(visited, goal)),
                                        H) : H \in HValues}
                     ELSE {st}
       IN UNION {RecurseAdjacent(g, visited, goal, adj, 1, s) : s \in closed}

\* The second loop from the k-th adjacent vertex on: push, recurse, pop.
RecurseAdjacent(g, visited, goal, adj, k, st) ==
  IF k > Len(adj) THEN {[st EXCEPT !.visited = visited]}
  ELSE IF adj[k] \in Range(visited) \/ adj[k] = goal
  THEN RecurseAdjacent(g, visited, goal, adj, k + 1, st)
  ELSE UNION {RecurseAdjacent(g, PopBack(s.visited), goal, adj, k + 1, s) :
                s \in DepthFirst(g, PushBack(visited, adj[k]), goal, st)}

\* A builder without the return for start and goal within the tolerance.
BuildAndSearchAlways(near_goal, inner, layout, st) ==
  LET g == InsertEdges(layout, inner + 2)
      st0 == [tebs |-> st.tebs, sigs |-> st.sigs, classified |-> <<>>,
              visited |-> <<1>>]
  IN {[graph |-> g, tebs |-> s.tebs, sigs |-> s.sigs,
       classified |-> s.classified, visited |-> s.visited] :
        s \in DepthFirst(g, <<1>>, inner + 2, st0)}

\* A builder after clearGraph(): nothing if start and goal are within the
\* goal tolerance, else the vertices, the edges and DepthFirst from start.
BuildAndSearch(near_goal, inner, layout, st) ==
  IF near_goal
  THEN {[graph |-> EmptyGraph, tebs |-> st.tebs, sigs |-> st.sigs,
         classified |-> <<>>, visited |-> <<>>]}
  ELSE LET g == InsertEdges(layout, inner + 2)
           start_vtx == 1
           st0 == [tebs |-> st.tebs, sigs |-> st.sigs, classified |-> <<>>,
                   visited |-> <<start_vtx>>]
       IN {[graph |-> g, tebs |-> s.tebs, sigs |-> s.sigs,
            classified |-> s.classified, visited |-> s.visited] :
             s \in DepthFirst(g, <<start_vtx>>, inner + 2, st0)}

createGraph(near_goal, obstacles, layout, st) ==
  BuildAndSearch(near_goal, 2 * obstacles, layout, st)

createProbRoadmapGraph(near_goal, samples, layout, st) ==
  BuildAndSearch(near_goal, samples, layout, st)

\* ------------------------------------------------- selection and detours

RECURSIVE SelectLoop(_, _, _, _)
SelectLoop(tebs, it_teb, best, min_cost) ==
  IF it_teb > Len(tebs) THEN best
  ELSE IF tebs[it_teb].cost < min_cost
  THEN SelectLoop(tebs, it_teb + 1, tebs[it_teb].id, tebs[it_teb].cost)
  ELSE SelectLoop(tebs, it_teb + 1, best, min_cost)

\* selectBestTeb with <= for <: the last of several minimal candidates wins.
RECURSIVE SelectLoopLastWins(_, _, _, _)
SelectLoopLastWins(tebs, it_teb, best, min_cost) ==
  IF it_teb > Len(tebs) THEN best
  ELSE IF tebs[it_teb].cost <= min_cost
  THEN SelectLoopLastWins(tebs, it_teb + 1, tebs[it_teb].id,
                          tebs[it_teb].cost)
  ELSE SelectLoopLastWins(tebs, it_teb + 1, best, min_cost)

selectBestTebLastWins(tebs) == SelectLoopLastWins(tebs, 1, NULL, DBL_MAX)

selectBestTeb(tebs) == SelectLoop(tebs, 1, NULL, DBL_MAX)

\* det: the ids whose trajectory detectDetoursBackwards(threshold) flags.
\* deleteTebDetours without the test that another candidate remains.
RECURSIVE deleteTebDetoursAll(_, _, _)
deleteTebDetoursAll(tebs, it_teb, det) ==
  IF it_teb > Len(tebs) THEN tebs
  ELSE IF tebs[it_teb].id \in det
  THEN deleteTebDetoursAll(RemoveAt(tebs, it_teb), it_teb, det)
  ELSE deleteTebDetoursAll(tebs, it_teb + 1, det)

RECURSIVE deleteTebDetours(_, _, _)
deleteTebDetours(tebs, it_teb, det) ==
  IF it_teb > Len(tebs) THEN tebs
  ELSE IF Len(tebs) > 1 /\ tebs[it_teb].id \in det
  THEN deleteTebDetours(RemoveAt(tebs, it_teb), it_teb, det)
  ELSE deleteTebDetours(tebs, it_teb + 1, det)


\* ------------------------------------------------------------------ plan()

\* No sampling loop is running.
NoSampling == [pc |-> "none"]

Init ==
  /\ pc = "idle"
  /\ tebs_ = <<>>
  /\ tebs_slack = <<>>
  /\ best_teb_ = NULL
  /\ h_signatures_ = <<>>
  /\ graph_ = EmptyGraph
  /\ teb_candidates = <<>>
  /\ cand_i = 0
  /\ cand_i_valid = TRUE
  /\ sig_of = <<>>
  /\ max_number_classes \in ClassLimits
  /\ h_signature_threshold \in SignatureThresholds
  /\ threads = <<>>
  /\ passes = <<>>
  /\ plan_ret = "none"
  /\ detours = {}
  /\ near_obstacle = {}
  /\ builder_visited = <<>>
  /\ classified = <<>>
  /\ explore_in = <<>>
  /\ optimized = <<>>
  /\ last_call = <<>>
  /\ sampling = NoSampling

cfg == <<max_number_classes, h_signature_threshold>>
search_locals == <<builder_visited, classified, explore_in>>
trace_vars == <<near_obstacle, search_locals, optimized, last_call, sampling>>
renew_locals == <<tebs_slack, teb_candidates, cand_i, cand_i_valid, sig_of>>

\* plan() is called.
plan ==
  /\ pc = "idle"
  /\ pc' = "update"
  /\ passes' = <<>>
  /\ plan_ret' = "none"
  /\ detours' = {}
  /\ last_call' = <<>>
  /\ UNCHANGED <<tebs_, best_teb_, h_signatures_, graph_, threads, cfg,
                 renew_locals, near_obstacle, search_locals, optimized,
                 sampling>>

\* The trajectories are updated in place; the pool is not changed.
updateAllTEBs ==
  /\ pc = "update"
  /\ pc' = "renew"
  /\ passes' = Append(passes, <<"updateAllTEBs">>)
  /\ UNCHANGED <<tebs_, best_teb_, h_signatures_, graph_, threads, cfg, trace_vars,
                 renew_locals, plan_ret, detours>>

\* renewAndAnalyzeOldTebs(false), from its first to its last statement.
renewAndAnalyzeOldTebs ==
  /\ pc = "renew"
  /\ \E det \in SUBSET Ids(tebs_) :
       \E near \in SUBSET Ids(tebs_) :
         \E hs \in [Ids(tebs_) \ near -> HValues] :
           \E R \in RenewLoops(RenewCollect(tebs_, FALSE, det, near, hs),
                               h_signature_threshold) :
             /\ tebs_' = R.tebs
             /\ h_signatures_' = R.sigs
             /\ pc' = IF R.phase = "crashed" THEN "crashed" ELSE "graph"
             /\ detours' = det
             /\ near_obstacle' = near
  /\ UNCHANGED <<best_teb_, graph_, threads, cfg, search_locals, optimized,
                 last_call, sampling, renew_locals, passes, plan_ret>>

\* The rest of exploreHomotopyClassesAndInitTebs: one of the two builders,
\* on obstacles obstacles, front of them in front of the start.
exploreHomotopyClassesAndInitTebs ==
  /\ pc = "graph"
  /\ \E simple_exploration \in BOOLEAN, near_goal \in BOOLEAN,
        obstacle_heading_threshold \in HeadingThresholds,
        obstacles \in 0..MaxObstacles :
       \E layout \in PossibleLayouts(obstacle_heading_threshold, obstacles),
          front \in 0..obstacles, samples \in 0..MaxSamples :
         \E r \in IF simple_exploration
                  THEN createGraph(near_goal, front, layout,
                                   [tebs |-> tebs_, sigs |-> h_signatures_])
                  ELSE createProbRoadmapGraph(near_goal, samples, layout,
                                   [tebs |-> tebs_, sigs |-> h_signatures_]) :
           /\ graph_' = r.graph
           /\ tebs_' = r.tebs
           /\ h_signatures_' = r.sigs
           /\ builder_visited' = r.visited
           /\ classified' = r.classified
           /\ explore_in' =
                <<[simple_exploration |-> simple_exploration,
                   near_goal |-> near_goal, obstacles |-> obstacles,
                   obstacle_heading_threshold |-> obstacle_heading_threshold]>>
  /\ pc' = "optimize"
  /\ passes' = Append(passes, <<"exploreHomotopyClassesAndInitTebs">>)
  /\ detours' = {}
  /\ near_obstacle' = {}
  /\ UNCHANGED <<best_teb_, threads, cfg, renew_locals, plan_ret, optimized,
                 last_call, sampling>>

\* optimizeAllTEBs without multithreading: every candidate in turn.
optimizeSequential ==
  /\ pc = "optimize"
  /\ \E cost \in [1..Len(tebs_) -> Costs] :
       tebs_' = [k \in 1..Len(tebs_) |-> [tebs_[k] EXCEPT !.cost = cost[k]]]
  /\ optimized' = [k \in 1..Len(tebs_) |-> 1]
  /\ pc' = "select"
  /\ passes' = Append(passes, <<"optimizeAllTEBs">>)
  /\ graph_' = EmptyGraph
  /\ builder_visited' = <<>>
  /\ classified' = <<>>
  /\ explore_in' = <<>>
  /\ UNCHANGED <<best_teb_, h_signatures_, threads, cfg, renew_locals,
                 plan_ret, detours, near_obstacle, last_call, sampling>>

\* optimizeAllTEBs with multithreading: the thread group is set up.
optimizeThreaded ==
  /\ pc = "optimize"
  /\ pc' = "threads"
  /\ threads' = <<>>
  /\ optimized' = [k \in 1..Len(tebs_) |-> 0]
  /\ graph_' = EmptyGraph
  /\ builder_visited' = <<>>
  /\ classified' = <<>>
  /\ explore_in' = <<>>
  /\ UNCHANGED <<tebs_, best_teb_, h_signatures_, cfg, renew_locals,
                 passes, plan_ret, detours, near_obstacle, last_call,
                 sampling>>

\* teb_threads.create_thread for the next candidate.
create_thread ==
  /\ pc = "threads"
  /\ Len(threads) < Len(tebs_)
  /\ threads' = Append(threads, "running")
  /\ UNCHANGED <<pc, tebs_, best_teb_, h_signatures_, graph_, cfg, trace_vars,
                 renew_locals, passes, plan_ret, detours>>

\* A worker that runs on the first candidate whatever it was created for.
optimizeTEBFirst(k) ==
  /\ threads[k] = "running"
  /\ threads' = [threads EXCEPT ![k] = "done"]
  /\ \E cost \in Costs : tebs_' = [tebs_ EXCEPT ![1].cost = cost]
  /\ optimized' = [optimized EXCEPT ![1] = @ + 1]
  /\ UNCHANGED <<pc, best_teb_, h_signatures_, graph_, cfg, renew_locals,
                 passes, plan_ret, detours, near_obstacle, search_locals,
                 last_call, sampling>>

\* The worker create_thread bound to candidate k runs optimizeTEB to its end.
optimizeTEB(k) ==
  /\ threads[k] = "running"
  /\ threads' = [threads EXCEPT ![k] = "done"]
  /\ \E cost \in Costs : tebs_' = [tebs_ EXCEPT ![k].cost = cost]
  /\ optimized' = [optimized EXCEPT ![k] = @ + 1]
  /\ UNCHANGED <<pc, best_teb_, h_signatures_, graph_, cfg, renew_locals,
                 passes, plan_ret, detours, near_obstacle, search_locals,
                 last_call, sampling>>

worker == \E k \in 1..Len(threads) : optimizeTEB(k)

\* join_all that waits for the threads to exist, not for their end.
JoinReadyNoWait(t, n) == Len(t) = n

\* teb_threads.join_all() returns.
JoinReady(t, n) == Len(t) = n /\ \A k \in 1..Len(t) : t[k] = "done"

join_all ==
  /\ pc = "threads"
  /\ JoinReady(threads, Len(tebs_))
  /\ pc' = "select"
  /\ passes' = Append(passes, <<"optimizeAllTEBs">>)
  /\ UNCHANGED <<tebs_, best_teb_, h_signatures_, graph_, threads, cfg, trace_vars,
                 renew_locals, plan_ret, detours>>

\* plan() returning right after the selection.
selectAndReturn ==
  /\ pc = "select"
  /\ best_teb_' = selectBestTeb(tebs_)
  /\ pc' = "idle"
  /\ passes' = Append(passes, <<"selectBestTeb">>)
  /\ plan_ret' = "true"
  /\ threads' = <<>>
  /\ optimized' = <<>>
  /\ UNCHANGED <<tebs_, h_signatures_, graph_, cfg, renew_locals, detours,
                 near_obstacle, search_locals, last_call, sampling>>

select ==
  /\ pc = "select"
  /\ best_teb_' = selectBestTeb(tebs_)
  /\ pc' = "detours"
  /\ passes' = Append(passes, <<"selectBestTeb">>)
  /\ threads' = <<>>
  /\ optimized' = <<>>
  /\ UNCHANGED <<tebs_, h_signatures_, graph_, cfg, renew_locals, plan_ret,
                 detours, near_obstacle, search_locals, last_call, sampling>>

\* deleteTebDetours(0.0) and return true.
deleteDetoursAndReturn ==
  /\ pc = "detours"
  /\ \E det \in SUBSET Ids(tebs_) :
       /\ tebs_' = deleteTebDetours(tebs_, 1, det)
       /\ detours' = det
  /\ pc' = "idle"
  /\ passes' = Append(passes, <<"deleteTebDetours", PlanDetourThreshold>>)
  /\ plan_ret' = "true"
  /\ UNCHANGED <<best_teb_, h_signatures_, graph_, threads, cfg, trace_vars,
                 renew_locals>>

\* ------------------------------------------- the calls between two cycles

getVelocityCommand(best_teb) ==
  IF best_teb = NULL THEN "zero" ELSE "best"

\* The loop of isTrajectoryFeasible from i on, after calls consultations of
\* the costmap: the set of [ret, oracle] it may end with.  Pose(i) of a
\* trajectory with no more than i poses is a read out of range: the process
\* ends, or the oracle is asked about what was read and rejects it.
RECURSIVE FeasibleLoop(_, _, _, _, _)
FeasibleLoop(i, look_ahead_idx, sizePoses, footprintCost, calls) ==
  IF i > look_ahead_idx % UINT_RANGE
  THEN {[ret |-> "true", oracle |-> calls]}
  ELSE IF i >= sizePoses
  THEN {[ret |-> "crashed", oracle |-> calls],
        [ret |-> "false", oracle |-> calls + 1]}
  ELSE IF footprintCost[i] < 0
  THEN {[ret |-> "false", oracle |-> calls + 1]}
  ELSE FeasibleLoop(i + 1, look_ahead_idx, sizePoses, footprintCost,
                    calls + 1)

\* isTrajectoryFeasible without the test of best_teb_.
isTrajectoryFeasibleUnguarded(best_teb, sizePoses, look_ahead_idx, footprintCost) ==
  FeasibleLoop(0, IF look_ahead_idx < 0 \/ look_ahead_idx >= sizePoses
                  THEN sizePoses - 1 ELSE look_ahead_idx,
               sizePoses, footprintCost, 0)

isTrajectoryFeasible(best_teb, sizePoses, look_ahead_idx, footprintCost) ==
  IF best_teb = NULL
  THEN {[ret |-> "false", oracle |-> 0]}
  ELSE FeasibleLoop(0, IF look_ahead_idx < 0 \/ look_ahead_idx >= sizePoses
                       THEN sizePoses - 1 ELSE look_ahead_idx,
                    sizePoses, footprintCost, 0)

call_frame ==
  <<tebs_, best_teb_, h_signatures_, graph_, threads, cfg, renew_locals,
    passes, plan_ret, detours, near_obstacle, search_locals, optimized,
    sampling>>

\* The caller asks for the velocity command.
call_getVelocityCommand ==
  /\ pc = "idle"
  /\ last_call' = <<[op |-> "getVelocityCommand",
                     ret |-> getVelocityCommand(best_teb_), oracle |-> 0]>>
  /\ UNCHANGED <<pc, call_frame>>

\* The caller asks whether the best trajectory is feasible.
call_isTrajectoryFeasible ==
  /\ pc = "idle"
  /\ \E sizePoses \in 0..MaxPoses, look_ahead_idx \in (-1)..MaxPoses,
        footprintCost \in [0..(MaxPoses - 1) -> {-1, 0}] :
       \E r \in isTrajectoryFeasible(best_teb_, sizePoses, look_ahead_idx,
                                     footprintCost) :
         /\ last_call' = <<[op |-> "isTrajectoryFeasible", ret |-> r.ret,
                            oracle |-> r.oracle, sizePoses |-> sizePoses,
                            look_ahead_idx |-> look_ahead_idx,
                            footprintCost |-> footprintCost]>>
         /\ pc' = IF r.ret = "crashed" THEN "crashed" ELSE pc
  /\ UNCHANGED call_frame

Next ==
  \/ plan
  \/ updateAllTEBs
  \/ renewAndAnalyzeOldTebs
  \/ exploreHomotopyClassesAndInitTebs
  \/ optimizeSequential
  \/ optimizeThreaded
  \/ create_thread
  \/ worker
  \/ join_all
  \/ select
  \/ deleteDetoursAndReturn
  \/ call_getVelocityCommand
  \/ call_isTrajectoryFeasible

Spec == Init /\ [][Next]_vars


\* ------------------------------------- re-analysis, one iteration at a time

\* The pass as a record of its locals and the members it writes.
RenewState ==
  [phase |-> pc, tebs |-> tebs_, slack |-> tebs_slack,
   cands |-> teb_candidates, cand_i |-> cand_i, valid |-> cand_i_valid,
   sigs |-> h_signatures_]

SetRenewState(R) ==
  /\ pc' = IF R.phase = "done" THEN "graph" ELSE R.phase
  /\ tebs_' = R.tebs
  /\ tebs_slack' = R.slack
  /\ teb_candidates' = R.cands
  /\ cand_i' = R.cand_i
  /\ cand_i_valid' = R.valid
  /\ h_signatures_' = R.sigs

\* A pool as a completed cycle leaves it: candidates 1..n in the order of
\* their discovery, any costs, the best one selected.
InitRenew ==
  /\ pc = "renew"
  /\ \E n \in 0..MaxPool :
       /\ \E cost \in [1..n -> Costs] :
            tebs_ = [k \in 1..n |-> [id |-> k, cost |-> cost[k]]]
       /\ max_number_classes = MaxPool
  /\ best_teb_ = selectBestTeb(tebs_)
  /\ tebs_slack = <<>>
  /\ h_signatures_ = <<>>
  /\ graph_ = EmptyGraph
  /\ teb_candidates = <<>>
  /\ cand_i = 0
  /\ cand_i_valid = TRUE
  /\ sig_of = <<>>
  /\ h_signature_threshold \in SignatureThresholds
  /\ threads = <<>>
  /\ passes = <<<<"updateAllTEBs">>>>
  /\ plan_ret = "none"
  /\ detours = {}
  /\ near_obstacle = {}
  /\ builder_visited = <<>>
  /\ classified = <<>>
  /\ explore_in = <<>>
  /\ optimized = <<>>
  /\ last_call = <<>>
  /\ sampling = NoSampling

renew_frame == <<best_teb_, graph_, threads, cfg, trace_vars, passes, plan_ret, detours>>

\* h_signatures_.clear() and the first loop of the pass.
renewCollect ==
  /\ pc = "renew"
  /\ \E near \in SUBSET Ids(tebs_) :
       \E hs \in [Ids(tebs_) \ near -> HValues] :
         /\ SetRenewState(RenewCollect(tebs_, FALSE, {}, near, hs))
         /\ sig_of' = hs
  /\ UNCHANGED renew_frame

\* One iteration of the second loop, or its exit.
renewDedup ==
  /\ pc = "dedup"
  /\ \E R \in DedupIteration(RenewState) : SetRenewState(R)
  /\ UNCHANGED <<sig_of, renew_frame>>

\* One iteration of the third loop, or its exit and the return.
renewRegister ==
  /\ pc = "register"
  /\ \E R \in RegisterIteration(RenewState, h_signature_threshold) :
       /\ SetRenewState(R)
  /\ UNCHANGED <<sig_of, renew_frame>>

\* The pass called once more directly after its return: no candidate is
\* near an obstacle any more and calculateHSignature gives each candidate
\* the signature it gave before (same trajectory, same obstacles).
renewAgain ==
  /\ pc = "graph"
  /\ LET hs == [id \in Ids(tebs_) |-> sig_of[id]]
     IN \E R \in RenewLoops(RenewCollect(tebs_, FALSE, {}, {}, hs),
                            h_signature_threshold) :
          /\ pc' = IF R.phase = "done" THEN "renewed" ELSE R.phase
          /\ tebs_' = R.tebs
          /\ tebs_slack' = R.slack
          /\ teb_candidates' = R.cands
          /\ cand_i' = R.cand_i
          /\ cand_i_valid' = R.valid
          /\ h_signatures_' = R.sigs
  /\ UNCHANGED <<sig_of, renew_frame>>

NextRenew == renewCollect \/ renewDedup \/ renewRegister \/ renewAgain

SpecRenew == InitRenew /\ [][NextRenew]_vars

\* ------------------------------------- selection and detours on any pool

\* A pool as the optimize pass of a cycle leaves it: candidates 1..n in the
\* order of their discovery, any costs, one registry entry per candidate,
\* the best of the cycle before or none.
InitPool ==
  /\ pc = "select"
  /\ \E n \in 0..MaxPool :
       /\ \E cost \in [1..n -> Costs] :
            tebs_ = [k \in 1..n |-> [id |-> k, cost |-> cost[k]]]
       /\ h_signatures_ =
            [k \in 1..n |-> <<(FirstDiscoveryThreshold + 1) * k, 0>>]
       /\ max_number_classes = MaxPool
  /\ best_teb_ \in {NULL} \cup Ids(tebs_)
  /\ tebs_slack = <<>>
  /\ graph_ = EmptyGraph
  /\ teb_candidates = <<>>
  /\ cand_i = 0
  /\ cand_i_valid = TRUE
  /\ sig_of = <<>>
  /\ h_signature_threshold \in SignatureThresholds
  /\ threads = <<>>
  /\ passes = <<<<"updateAllTEBs">>, <<"exploreHomotopyClassesAndInitTebs">>,
                <<"optimizeAllTEBs">>>>
  /\ plan_ret = "none"
  /\ detours = {}
  /\ near_obstacle = {}
  /\ builder_visited = <<>>
  /\ classified = <<>>
  /\ explore_in = <<>>
  /\ optimized = [k \in 1..Len(tebs_) |-> 1]
  /\ last_call = <<>>
  /\ sampling = NoSampling

NextPool == select \/ deleteDetoursAndReturn

SpecPool == InitPool /\ [][NextPool]_vars


\* ------------------------------- the sampling loop of the randomized builder

\* The loop of createProbRoadmapGraph in the first exploration after
\* construction: roadmap_graph_no_samples samples asked for, the obstacles
\* either covering the whole sampling rectangle or not.
InitSample ==
  /\ pc = "graph"
  /\ tebs_ = <<>>
  /\ h_signatures_ = <<>>
  /\ max_number_classes \in ClassLimits
  /\ best_teb_ = NULL
  /\ tebs_slack = <<>>
  /\ graph_ = EmptyGraph
  /\ teb_candidates = <<>>
  /\ cand_i = 0
  /\ cand_i_valid = TRUE
  /\ sig_of = <<>>
  /\ h_signature_threshold \in SignatureThresholds
  /\ threads = <<>>
  /\ passes = <<<<"updateAllTEBs">>>>
  /\ plan_ret = "none"
  /\ detours = {}
  /\ near_obstacle = {}
  /\ builder_visited = <<>>
  /\ classified = <<>>
  /\ explore_in = <<>>
  /\ optimized = <<>>
  /\ last_call = <<>>
  /\ \E no_samples \in 0..MaxSamples, obstacles \in 0..MaxObstacles,
        covered \in BOOLEAN :
       /\ covered => obstacles > 0
       /\ sampling = [pc |-> "for", i |-> 0, no_samples |-> no_samples,
                      obstacles |-> obstacles, covered |-> covered,
                      coll_free |-> TRUE, tries |-> 0, vertices |-> <<>>,
                      ros_ok |-> TRUE]

sample_frame ==
  <<pc, tebs_, tebs_slack, best_teb_, h_signatures_, graph_, renew_locals,
    cfg, threads, passes, plan_ret, detours, near_obstacle, search_locals,
    optimized, last_call>>

\* The obstacles a sampled point can collide with.
SampleHits(obstacles, covered) ==
  {hit \in SUBSET (1..obstacles) : covered => hit # {}}

\* for (unsigned int i=0; i<roadmap_graph_no_samples; ++i): the test.
sampleFor ==
  /\ sampling.pc = "for"
  /\ sampling' =
       IF sampling.i < sampling.no_samples
       THEN [sampling EXCEPT !.pc = "do", !.tries = 0]
       ELSE [sampling EXCEPT !.pc = "done"]
  /\ UNCHANGED sample_frame

\* The body of the do loop: a point is drawn and tested against every
\* obstacle.  tries counts the draws for this vertex, up to MaxTries.
sampleDo ==
  /\ sampling.pc = "do"
  /\ \E hit \in SampleHits(sampling.obstacles, sampling.covered) :
       sampling' =
         [sampling EXCEPT !.pc = "while", !.coll_free = (hit = {}),
            !.tries = IF @ < MaxTries THEN @ + 1 ELSE @]
  /\ UNCHANGED sample_frame

\* while (!coll_free && ros::ok())
sampleWhile ==
  /\ sampling.pc = "while"
  /\ sampling' =
       IF ~sampling.coll_free /\ sampling.ros_ok
       THEN [sampling EXCEPT !.pc = "do"]
       ELSE [sampling EXCEPT !.pc = "add"]
  /\ UNCHANGED sample_frame

\* boost::add_vertex(graph_) with the last point drawn, and ++i.  A vertex
\* is recorded by whether its point collides.
sampleAddVertex ==
  /\ sampling.pc = "add"
  /\ sampling' =
       [sampling EXCEPT !.pc = "for", !.i = @ + 1,
          !.vertices = Append(@, ~sampling.coll_free)]
  /\ UNCHANGED sample_frame

\* The node is asked to shut down: ros::ok() is false from now on.
shutdown ==
  /\ sampling.pc \in {"for", "do", "while", "add"}
  /\ sampling.ros_ok
  /\ sampling' = [sampling EXCEPT !.ros_ok = FALSE]
  /\ UNCHANGED sample_frame

SampleStep == sampleFor \/ sampleDo \/ sampleWhile \/ sampleAddVertex

NextSample == SampleStep \/ shutdown

\* A draw that finds a collision-free point, where there is one.
sampleFreePoint == sampleDo /\ sampling'.coll_free

\* The thread that runs the loop keeps running, and a random draw repeated
\* for ever finds a collision-free point if the rectangle has one.  Nothing
\* makes a shutdown happen.
SpecSample ==
  /\ InitSample /\ [][NextSample]_vars
  /\ WF_vars(SampleStep) /\ SF_vars(sampleFreePoint)


\* ------------------------------------------------------------------ claims

CostOf(tebs, id) == tebs[CHOOSE k \in 1..Len(tebs) : tebs[k].id = id].cost

\* C1: with a fixed maximum class count and an initially empty pool, the
\* pool never holds more candidates than the maximum class count, at any
\* point of any cycle, in particular right after the exploration pass.
C1_PoolWithinClassLimit == Len(tebs_) <= max_number_classes

\* C1 witness: a later cycle's exploration has just filled the pool on a graph
\* with several edges out of the start.
C1_Witness ==
  /\ pc = "optimize"
  /\ best_teb_ # NULL
  /\ max_number_classes = 2
  /\ Len(tebs_) = max_number_classes
  /\ graph_.n = 4
  /\ Len(graph_.adj[1]) = 3

\* C2: after selectBestTeb the best candidate is a pool member of minimal
\* summed cost, the earliest such member in pool order, and NULL for an
\* empty pool.
C2_SelectsFirstMinimal ==
  pc = "detours" =>
    IF tebs_ = <<>>
    THEN best_teb_ = NULL
    ELSE \E k \in 1..Len(tebs_) :
           /\ best_teb_ = tebs_[k].id
           /\ \A m \in 1..Len(tebs_) : tebs_[k].cost <= tebs_[m].cost
           /\ \A m \in 1..(k - 1) : tebs_[k].cost < tebs_[m].cost

\* C2 witness: two candidates tie on the minimal cost and the first is best.
C2_Witness ==
  /\ pc = "detours"
  /\ Len(tebs_) = 2
  /\ tebs_[1].cost = tebs_[2].cost
  /\ best_teb_ = tebs_[1].id

\* C3: after every completed plan() the best candidate is NULL or a member
\* of the pool of minimal summed cost.
C3_BestIsSurvivor ==
  (pc = "idle" /\ plan_ret = "true") =>
    \/ best_teb_ = NULL
    \/ \E k \in 1..Len(tebs_) :
         /\ best_teb_ = tebs_[k].id
         /\ \A m \in 1..Len(tebs_) : tebs_[k].cost <= tebs_[m].cost


\* Both parts of two signatures differ by less than t (strict) or by at most
\* t (not strict).
Closer(a, b, t) == Abs(a[1] - b[1]) < t /\ Abs(a[2] - b[2]) < t
Within(a, b, t) == Abs(a[1] - b[1]) <= t /\ Abs(a[2] - b[2]) <= t

Smaller(a, b) == IF a < b THEN a ELSE b

\* C4: when the re-analysis pass has run its last loop, no two candidates
\* left in the pool have signatures that compareH takes for equal.
C4_NoEqualSignaturesLeft ==
  (pc = "register" /\ cand_i > Len(teb_candidates)) =>
    \A a, b \in 1..Len(tebs_) :
      a # b => ~Closer(sig_of[tebs_[a].id], sig_of[tebs_[b].id],
                       CompareHThreshold)

\* C5: every erase of the deduplication loop removes a candidate that has an
\* equal-signature partner of no higher cost, and the partner stays in the
\* pool.
C5_DedupErasesCostlierOfPair ==
  [][(pc = "dedup" /\ pc' # "crashed" /\ tebs_' # tebs_) =>
       \E e \in Ids(tebs_) \ Ids(tebs_') :
         \E o \in Ids(tebs_') :
           /\ Closer(sig_of[e], sig_of[o], CompareHThreshold)
           /\ CostOf(tebs_, e) >= CostOf(tebs_, o)]_vars

C7_AppendsIffNew ==
  [][(pc = "register" /\ cand_i <= Len(teb_candidates) /\ pc' # "crashed") =>
       LET H == teb_candidates[cand_i].H
           fresh == \A k \in 1..Len(h_signatures_) :
                      \/ Abs(h_signatures_[k][1] - H[1]) > h_signature_threshold
                      \/ Abs(h_signatures_[k][2] - H[2]) > h_signature_threshold
       IN IF fresh
          THEN h_signatures_' = h_signatures_ \o <<H>> /\ tebs_' = tebs_
          ELSE h_signatures_' = h_signatures_
               /\ Len(tebs_') = Len(tebs_) - 1]_vars

\* C7 witness: three calls were made, the second reported a duplicate because
\* of an entry exactly at the threshold, the third was new.
C7_Witness ==
  /\ pc = "register"
  /\ cand_i = 4
  /\ Len(teb_candidates) = 3
  /\ h_signatures_ = <<teb_candidates[1].H, teb_candidates[3].H>>
  /\ Abs(teb_candidates[1].H[2] - teb_candidates[2].H[2])
       = h_signature_threshold

\* C8: deleteTebDetours leaves a non-empty pool non-empty, keeps a sole
\* candidate, leaves a detour in the pool only as its sole member, and
\* keeps the candidates that are no detour in their order.
C8_DetoursRemovedButNotTheLast ==
  [][(pc = "detours" /\ pc' = "idle") =>
       LET keep(c) == c.id \notin detours'
       IN /\ tebs_ # <<>> => tebs_' # <<>>
          /\ Len(tebs_) = 1 => tebs_' = tebs_
          /\ \A k \in 1..Len(tebs_') :
               tebs_'[k].id \in detours' => Len(tebs_') = 1
          /\ SelectSeq(tebs_', keep) = SelectSeq(tebs_, keep)]_vars

\* C8 witness: all three candidates of a pool were detours and the last one
\* stayed.
C8_Witness ==
  /\ pc = "idle"
  /\ Cardinality(detours) = 3
  /\ Len(tebs_) = 1
  /\ tebs_[1].id = 3
  /\ tebs_[1].id \in detours

IsPrefix(s, t) == Len(s) <= Len(t) /\ s = SubSeq(t, 1, Len(s))

\* The order of the passes as claimed.
ClaimedOrder ==
  <<<<"updateAllTEBs">>, <<"exploreHomotopyClassesAndInitTebs">>,
    <<"optimizeAllTEBs">>, <<"selectBestTeb">>, <<"deleteTebDetours", 0>>>>

\* C9: the passes of a plan() call complete in the order update, explore,
\* optimize, select, delete detours with threshold 0, none left out or
\* repeated, and plan() returns true after the last one.
C9_PassesInOrder ==
  /\ IsPrefix(passes, ClaimedOrder)
  /\ pc = "update" => Len(passes) = 0
  /\ pc \in {"renew", "graph"} => Len(passes) = 1
  /\ pc \in {"optimize", "threads"} => Len(passes) = 2
  /\ pc = "select" => Len(passes) = 3
  /\ pc = "detours" => Len(passes) = 4
  /\ plan_ret = "true" <=>
       (pc \in {"idle", "crashed"} /\ passes = ClaimedOrder)

\* C9 witness: a later plan() call has returned with a candidate its own
\* exploration pass created next to one kept from an earlier call.
C9_Witness ==
  /\ pc = "idle"
  /\ plan_ret = "true"
  /\ passes = ClaimedOrder
  /\ Len(tebs_) = 2
  /\ \E k \in 1..Len(tebs_) : tebs_[k].id = 3

\* C10: with multithreading there are never more workers than candidates or
\* than the maximum class count, and when the costs are read for the selection
\* there is one worker per candidate and every worker has finished.
C10_JoinBeforeSelect ==
  /\ Len(threads) <= Len(tebs_)
  /\ Len(threads) <= max_number_classes
  /\ pc \notin {"threads", "select"} => threads = <<>>
  /\ (pc = "select" /\ threads # <<>>) =>
       /\ Len(threads) = Len(tebs_)
       /\ \A k \in 1..Len(threads) : threads[k] = "done"

\* C10 witness: the first worker has finished before the second was created.
C10_Witness ==
  /\ pc = "threads"
  /\ Len(tebs_) = 2
  /\ threads = <<"done">>

\* C11: in the optimize pass no candidate is optimized more than once, a
\* candidate is optimized by the worker created for it and by no other, at
\* the selection every candidate has been optimized exactly once whichever
\* variant ran, and while a worker runs the members and the order of the
\* pool, the registry and the graph stay as they are.
C11_OneWorkerPerCandidate ==
  [][/\ \A k \in 1..Len(optimized') : optimized'[k] <= 1
     /\ pc' = "threads" =>
          \A k \in 1..Len(optimized') :
            optimized'[k] = 1 <=> (k <= Len(threads') /\ threads'[k] = "done")
     /\ pc' = "select" =>
          /\ Len(optimized') = Len(tebs_')
          /\ \A k \in 1..Len(tebs_') : optimized'[k] = 1
     /\ (\E k \in 1..Len(threads) : threads[k] = "running") =>
          /\ Len(tebs_') = Len(tebs_)
          /\ \A k \in 1..Len(tebs_) : tebs_'[k].id = tebs_[k].id
          /\ h_signatures_' = h_signatures_
          /\ graph_' = graph_]_vars

\* C11 witness: of two workers the second has finished and the first runs.
C11_Witness ==
  /\ pc = "threads"
  /\ threads = <<"running", "done">>
  /\ optimized = <<0, 1>>

\* C12: the selection on an empty pool leaves the best candidate NULL, and
\* with an empty pool getVelocityCommand returns the zero vector and
\* isTrajectoryFeasible returns false without a consultation of the costmap;
\* none of the three ends the process or changes the pool.
C12_EmptyPoolDegrades ==
  [][/\ (pc = "select" /\ tebs_ = <<>>) =>
          (best_teb_' = NULL /\ pc' = "detours" /\ tebs_' = <<>>)
     /\ (pc = "idle" /\ tebs_ = <<>> /\ last_call' # <<>>) =>
          /\ pc' = "idle"
          /\ tebs_' = <<>>
          /\ last_call'[1].op = "getVelocityCommand" =>
               last_call'[1].ret = "zero"
          /\ last_call'[1].op = "isTrajectoryFeasible" =>
               (last_call'[1].ret = "false" /\ last_call'[1].oracle = 0)]_vars

\* C12 witness: a cycle ended with an empty pool and the feasibility check
\* was asked afterwards.
C12_Witness ==
  /\ pc = "idle"
  /\ plan_ret = "true"
  /\ tebs_ = <<>>
  /\ best_teb_ = NULL
  /\ last_call # <<>>
  /\ last_call[1].op = "isTrajectoryFeasible"
  /\ last_call[1].ret = "false"
  /\ last_call[1].oracle = 0

\* C13: an exploration pass with start and goal within the goal tolerance,
\* with either builder, leaves the graph empty and the pool and the registry
\* as the re-analysis left them, hands no path to the classifier, and comes
\* after the update and before the remaining passes of the cycle.
C13_NearGoalExploresNothing ==
  [][(pc = "graph" /\ pc' = "optimize" /\ explore_in'[1].near_goal) =>
       /\ graph_' = EmptyGraph
       /\ tebs_' = tebs_
       /\ h_signatures_' = h_signatures_
       /\ classified' = <<>>
       /\ passes' = SubSeq(ClaimedOrder, 1, 2)]_vars

\* C13 witness: a cycle with start and goal within the tolerance and the
\* randomized builder has kept its two candidates to the optimize pass.
C13_Witness ==
  /\ pc = "optimize"
  /\ explore_in # <<>>
  /\ explore_in[1].near_goal
  /\ ~explore_in[1].simple_exploration
  /\ Len(tebs_) = 2
  /\ graph_ = EmptyGraph

\* The arrangements of the elements of S in a sequence.
RECURSIVE Perms(_)
Perms(S) ==
  IF S = {} THEN {<<>>}
  ELSE UNION {{<<x>> \o q : q \in Perms(S \ {x})} : x \in S}

\* p leads from vertex 1 to vertex g.n along edges of g, no vertex twice.
IsSimplePath(g, p) ==
  /\ Len(p) >= 2
  /\ p[1] = 1
  /\ p[Len(p)] = g.n
  /\ \A a, b \in 1..Len(p) : a # b => p[a] # p[b]
  /\ \A a \in 1..(Len(p) - 1) : p[a + 1] \in Range(g.adj[p[a]])

SimplePaths(g) ==
  {p \in {<<1>> \o q \o <<g.n>> :
            q \in UNION {Perms(S) : S \in SUBSET (2..(g.n - 1))}} :
     IsSimplePath(g, p)}

\* C17: every path DepthFirst hands to the classifier is handed while the
\* pool is below the maximum class count, so that nothing is registered or
\* created once the pool has reached it; with maximum class count 1 at most
\* one path is handed, and the pool then holds one candidate.
C17_NothingHandedAtLimit ==
  /\ \A k \in 1..Len(classified) : classified[k].size < max_number_classes
  /\ Len(tebs_) >= max_number_classes =>
       \A k \in 1..Len(classified) : classified[k].size < Len(tebs_)
  /\ (max_number_classes = 1 /\ classified # <<>>) =>
       (Len(classified) = 1 /\ Len(tebs_) = 1)

\* C17 witness: maximum class count 1, a graph with at least three simple
\* paths from start to goal, one path handed, one candidate.
C17_Witness ==
  /\ pc = "optimize"
  /\ max_number_classes = 1
  /\ graph_.n > 0
  /\ Cardinality(SimplePaths(graph_)) >= 3
  /\ Len(classified) = 1
  /\ Len(tebs_) = 1

\* C18 as claimed: an exploration pass with the deterministic builder, an
\* empty pool, no obstacle and start and goal apart builds the graph whose
\* only edge is start to goal and creates exactly one candidate, and a sole
\* candidate is selected as best.
C18_NoObstacleOneCandidate ==
  [][/\ (/\ pc = "graph" /\ pc' = "optimize" /\ tebs_ = <<>>
         /\ explore_in'[1].simple_exploration
         /\ ~explore_in'[1].near_goal
         /\ explore_in'[1].obstacles = 0) =>
          /\ graph_' = [n |-> 2, adj |-> <<<<2>>, <<>>>>]
          /\ Len(tebs_') = 1
     /\ (pc = "select" /\ Len(tebs_) = 1) => best_teb_' = tebs_[1].id]_vars

\* C19: when DepthFirst has returned, every path it handed to the classifier
\* is a simple path from start to goal along edges of the graph, none was
\* handed twice, the vector visited holds the start alone, and if the pool
\* is still below the maximum class count the paths handed are all simple
\* paths from start to goal.
C19_DepthFirstEnumeratesSimplePaths ==
  (pc = "optimize" /\ graph_.n > 0) =>
    /\ \A k \in 1..Len(classified) : IsSimplePath(graph_, classified[k].path)
    /\ \A a, b \in 1..Len(classified) :
         a # b => classified[a].path # classified[b].path
    /\ builder_visited = <<1>>
    /\ Len(tebs_) < max_number_classes =>
         {classified[k].path : k \in 1..Len(classified)} = SimplePaths(graph_)

\* C19 witness: all five simple paths of a graph on four vertices with every
\* edge were handed to the classifier, the pool being below its limit.
C19_Witness ==
  /\ pc = "optimize"
  /\ graph_.n = 4
  /\ Len(classified) = 5
  /\ Len(tebs_) < max_number_classes

\* C14: the sampling of every roadmap vertex terminates, whatever the
\* obstacles, also when every point of the sampling rectangle collides: the
\* loop over the samples reaches its end.
C14_SamplingTerminates == <>(sampling.pc = "done")

\* C15: in the last loop of the re-analysis pass every call of
\* addNewHSignatureIfNew reports a new signature, for every pool, every
\* signatures and every threshold: the signature is appended to the registry
\* and no candidate is erased.
C15_ReRegistrationAlwaysNew ==
  [][(pc = "register" /\ cand_i <= Len(teb_candidates)) =>
       /\ h_signatures_' = h_signatures_ \o <<teb_candidates[cand_i].H>>
       /\ tebs_' = tebs_]_vars

\* C16: the re-analysis pass run a second time directly after a first run,
\* with the same trajectories, costs and obstacles, leaves the pool (size,
\* members, order), the registry and the best selection as the first run
\* left them.
C16_ReanalysisIdempotent ==
  [][(pc = "graph" /\ pc' = "renewed") =>
       /\ tebs_' = tebs_
       /\ h_signatures_' = h_signatures_
       /\ selectBestTeb(tebs_') = selectBestTeb(tebs_)]_vars

\* C20 as claimed: after the re-analysis pass of a plan() cycle the pool
\* holds no candidate whose trajectory is a backwards detour and none whose
\* trajectory is within the clearance of an obstacle.
C20_NoDetourNoNearCollisionLeft ==
  pc = "graph" =>
    \A k \in 1..Len(tebs_) :
      tebs_[k].id \notin detours /\ tebs_[k].id \notin near_obstacle

\* C20: the re-analysis pass of a plan() cycle leaves in the pool no
\* candidate whose trajectory is within the clearance of an obstacle, and it
\* empties a pool exactly when every candidate is one of these (a sole one
\* included): being a backwards detour makes it drop no candidate.
C20_NoNearCollisionLeft ==
  [][(pc = "renew" /\ pc' = "graph") =>
       /\ \A k \in 1..Len(tebs_') : tebs_'[k].id \notin near_obstacle'
       /\ tebs_' = <<>> <=> Ids(tebs_) \subseteq near_obstacle']_vars

\* C20 witness: the pass has erased the sole candidate of the pool, which
\* was close to an obstacle; another cycle left a sole detour in the pool.
C20_Witness ==
  /\ pc = "graph"
  /\ tebs_ = <<>>
  /\ Cardinality(near_obstacle) = 1
  /\ best_teb_ \in near_obstacle

\* The last index isTrajectoryFeasible is to look at, as claimed.
ClaimedLastIndex(look_ahead_idx, sizePoses) ==
  IF 0 <= look_ahead_idx /\ look_ahead_idx < sizePoses
  THEN look_ahead_idx ELSE sizePoses - 1

\* C22: isTrajectoryFeasible returns false when there is no best candidate
\* or the costmap gives a negative cost for a pose 0..k, and true otherwise,
\* k being look_ahead_idx if that is an index of the trajectory and the last
\* index if not; the costmap is asked about the poses from 0 up to the first
\* unsafe one or up to k and about no other, for trajectories of any length,
\* zero poses included.
C22_FeasibleIffNoUnsafePose ==
  [][(pc = "idle" /\ last_call' # <<>>
        /\ last_call'[1].op = "isTrajectoryFeasible") =>
       LET c == last_call'[1]
           k == ClaimedLastIndex(c.look_ahead_idx, c.sizePoses)
           unsafe == {i \in 0..k : c.footprintCost[i] < 0}
       IN IF best_teb_ = NULL
          THEN c.ret = "false" /\ c.oracle = 0
          ELSE IF unsafe # {}
          THEN c.ret = "false" /\ c.oracle = MinNat(unsafe) + 1
          ELSE c.ret = "true" /\ c.oracle = k + 1]_vars

C21_RemovedOnlyIfJudged ==
  [][(pc \in {"renew", "dedup", "register"} /\ pc' # "crashed") =>
       LET removed == Ids(tebs_) \ Ids(tebs_')
           stays(c) == c.id \in Ids(tebs_')
       IN /\ tebs_' = SelectSeq(tebs_, stays)
          /\ pc = "renew" => removed = Ids(tebs_) \ DOMAIN sig_of'
          /\ pc # "renew" =>
               \A e \in removed :
                 \E o \in Ids(tebs_) \ {e} :
                   /\ Closer(sig_of[e], sig_of[o], CompareHThreshold)
                   /\ CostOf(tebs_, e) >= CostOf(tebs_, o)]_vars

====
